---- MODULE Spec2Model ----
(***************************************************************************)
(* FlashToken: the append-only piece cache (AppendOnlyPieceTokenCache) and *)
(* the fixed-prefix cache (FixedPrefixTokenCache) over a tiktoken-style    *)
(* encoding: a pre-tokenization regex followed by BPE inside each piece.   *)
(*                                                                         *)
(* Texts are sequences of one-character strings.  Offsets are 0-based, as  *)
(* in Python: the character at offset p of t is t[p+1], and a piece is a   *)
(* pair <<start, end>> denoting the half-open range [start, end).          *)
(***************************************************************************)
EXTENDS Integers, Sequences, FiniteSets, TLC

\* ------------------------------------------------------------------ bounds

MaxLen == 5          \* longest text held by a cache
MaxDelta == 2        \* longest delta of one append_ordinary call
MaxBacktrack == 2    \* largest backtrack_pieces argument
MaxInit == 3         \* longest initial_text of a constructor call
MaxReset == 2        \* longest text of a reset call
MaxPrefix == 3       \* longest prefix of a FixedPrefixTokenCache
MaxSuffix == 1       \* longest suffix of one encode_ordinary call
MaxFailLen == 2      \* longest text of a constructor or reset call that may fail
MaxFailDelta == 1    \* longest delta where the encoder may raise
MaxFailText == 4     \* longest text held where the encoder may raise
MaxSharedLen == 2    \* most text held by the caches that share a process
MaxStepLen == 1      \* longest text the writer constructs or resets with
MaxStepDelta == 1    \* longest delta of a call taken statement by statement
MaxStepText == 3     \* longest text the cache holds while the reader looks on
MaxHeapLen == 1      \* longest text given to a cache whose lists are followed by identity
MaxHeapDelta == 1    \* longest delta given to such a cache
MaxHeapText == 2     \* longest text such a cache holds
MaxHeapPrefix == 2   \* longest prefix of a fixed-prefix cache followed by identity
MaxHeapSuffix == 1   \* longest suffix given to such a cache

\* ------------------------------------------------------- the encoder side

Letters == {"a"}
Newlines == {"\n"}
Whitespace == {" ", "\n"}
Alphabet == Letters \cup Whitespace

Texts(n) == UNION {[1..m -> Alphabet] : m \in 0..n}

\* The encodings a cache can be built over: "cl" is the cl100k_base
\* pre-tokenizer restricted to Alphabet,
\*   [^\r\n\p{L}\p{N}]?+\p{L}+ | \s*[\r\n] | \s+(?!\S) | \s+
\* and "gap" is a pre-tokenizer that leaves characters unmatched,
\*   \p{L}++(?![\r\n]) | [ ]++
Encodings == {"cl", "gap"}

Max(S) == CHOOSE x \in S : \A y \in S : y <= x

\* End of the maximal run of characters of class S that starts at offset p.
RunEnd(S, t, p) ==
    CHOOSE e \in p..Len(t) :
        /\ \A j \in p..(e - 1) : t[j + 1] \in S
        /\ (e = Len(t) \/ t[e + 1] \notin S)

\* Each alternative returns the end of its match at offset p, or p when it
\* does not match there (no alternative matches the empty string).

\* [^\r\n\p{L}\p{N}]?+\p{L}+
AltWord(t, p) ==
    LET q == IF p < Len(t) /\ t[p + 1] \notin (Newlines \cup Letters)
             THEN p + 1 ELSE p
        e == RunEnd(Letters, t, q)
    IN  IF e > q THEN e ELSE p

\* \s*[\r\n]
AltNewline(t, p) ==
    LET r == RunEnd(Whitespace, t, p)
        nl == {j \in p..(r - 1) : t[j + 1] \in Newlines}
    IN  IF nl # {} THEN Max(nl) + 1 ELSE p

\* \s+(?!\S)
AltSpaceLookahead(t, p) ==
    LET r == RunEnd(Whitespace, t, p)
    IN  IF r = p THEN p
        ELSE IF r = Len(t) THEN r
        ELSE IF r - 1 > p THEN r - 1
        ELSE p

\* \s+
AltSpace(t, p) == RunEnd(Whitespace, t, p)

\* \p{L}++(?![\r\n])
AltWordNotBeforeNewline(t, p) ==
    LET e == RunEnd(Letters, t, p)
    IN  IF e > p /\ (e = Len(t) \/ t[e + 1] \notin Newlines) THEN e ELSE p

\* [ ]++
AltBlanks(t, p) == RunEnd(Whitespace \ Newlines, t, p)

\* The first alternative matching at p decides (regex alternation is ordered).
MatchEnd(e, t, p) ==
    IF e = "cl"
    THEN IF AltWord(t, p) > p THEN AltWord(t, p)
         ELSE IF AltNewline(t, p) > p THEN AltNewline(t, p)
         ELSE IF AltSpaceLookahead(t, p) > p THEN AltSpaceLookahead(t, p)
         ELSE AltSpace(t, p)
    ELSE IF AltWordNotBeforeNewline(t, p) > p THEN AltWordNotBeforeNewline(t, p)
         ELSE AltBlanks(t, p)

\* pattern.finditer(t): the non-overlapping matches, left to right.
RECURSIVE FinditerFrom(_, _, _)
FinditerFrom(e, t, p) ==
    IF p >= Len(t) THEN <<>>
    ELSE LET m == MatchEnd(e, t, p)
         IN  IF m > p THEN <<(<<p, m>>)>> \o FinditerFrom(e, t, m)
             ELSE FinditerFrom(e, t, p + 1)

Finditer(e, t) == FinditerFrom(e, t, 0)

\* The vocabulary in rank order; the token of an entry is its rank.
Vocab ==
    << <<"a">>, <<" ">>, <<"\n">>,
       <<"a", "a">>, <<" ", "a">>, <<"\n", " ">>, <<" ", "\n">>, <<" ", " ">> >>

InVocab(s) == \E r \in 1..Len(Vocab) : Vocab[r] = s
Rank(s) == CHOOSE r \in 1..Len(Vocab) : Vocab[r] = s

\* Byte-pair merging: merge the adjacent pair of lowest rank (leftmost on a
\* tie) until no adjacent pair is in the vocabulary.
RECURSIVE BytePairMerge(_)
BytePairMerge(parts) ==
    LET cand == {i \in 1..(Len(parts) - 1) : InVocab(parts[i] \o parts[i + 1])}
    IN  IF cand = {} THEN parts
        ELSE LET i == CHOOSE x \in cand : \A y \in cand :
                          \/ Rank(parts[x] \o parts[x + 1]) < Rank(parts[y] \o parts[y + 1])
                          \/ /\ Rank(parts[x] \o parts[x + 1]) = Rank(parts[y] \o parts[y + 1])
                             /\ x <= y
             IN  BytePairMerge(SubSeq(parts, 1, i - 1)
                               \o <<parts[i] \o parts[i + 1]>>
                               \o SubSeq(parts, i + 2, Len(parts)))

\* encoding._encode_single_piece(piece)
EncodeSinglePiece(piece) ==
    IF InVocab(piece) THEN <<Rank(piece)>>
    ELSE LET parts == BytePairMerge([i \in 1..Len(piece) |-> <<piece[i]>>])
         IN  [i \in 1..Len(parts) |-> Rank(parts[i])]

Slice(t, start, end) == SubSeq(t, start + 1, end)

\* encoding.encode_ordinary(text): every match of the pattern, BPE-encoded.
RECURSIVE EncodePieces(_, _)
EncodePieces(t, ms) ==
    IF ms = <<>> THEN <<>>
    ELSE EncodeSinglePiece(Slice(t, Head(ms)[1], Head(ms)[2])) \o EncodePieces(t, Tail(ms))

EncodeOrdinary(e, t) == EncodePieces(t, Finditer(e, t))

\* encoding.decode(tokens)
RECURSIVE Decode(_)
Decode(toks) ==
    IF toks = <<>> THEN <<>> ELSE Vocab[Head(toks)] \o Decode(Tail(toks))

\* The token is made of blanks, newlines and tabs only.
TokenIsAllSpace(tok) == \A i \in 1..Len(Vocab[tok]) : Vocab[tok][i] \in {" ", "\n", "\t"}

\* The token count of the last piece of t (0 when t has no piece).
LastPieceTokenLen(e, t) ==
    LET ms == Finditer(e, t)
    IN  IF ms = <<>> THEN 0
        ELSE Len(EncodeSinglePiece(Slice(t, ms[Len(ms)][1], ms[Len(ms)][2])))

\* When the last piece starts with an all-space token, the all-space tokens
\* before it are unstable as well.
RECURSIVE IncreaseLastPieceTokenLen(_, _)
IncreaseLastPieceTokenLen(toks, n) ==
    IF n < Len(toks) /\ TokenIsAllSpace(toks[Len(toks) - n])
    THEN IncreaseLastPieceTokenLen(toks, n + 1)
    ELSE n

\* encoding.encode_with_unstable(text)[0]: the tokens before the unstable tail.
EncodeWithUnstable(e, t) ==
    LET toks == EncodeOrdinary(e, t)
        n0 == LastPieceTokenLen(e, t)
        n == IF n0 > 0 /\ TokenIsAllSpace(toks[Len(toks) - n0 + 1])
             THEN IncreaseLastPieceTokenLen(toks, n0) ELSE n0
    IN  SubSeq(toks, 1, Len(toks) - n)

\* ------------------------------------------------ AppendOnlyPieceTokenCache

VARIABLES
    phase,            \* "new" before the constructor ran, "ready", "failed" when
                      \* the constructor raised, "poisoned" after an encoder error
                      \* in a call (the caller discards the cache)
    enc,              \* the encoding the cache is built over
    compiled,         \* the pattern has been compiled
    backtrack_pieces, \* self._backtrack_pieces
    text,             \* self._text
    pieces,           \* self._pieces
    piece_tokens,     \* self._piece_tokens
    tokens,           \* self._tokens
    last,             \* the last call: its arguments, what it returned or raised
    stream,           \* a consumer's token stream, kept by applying each TokenDelta
    suff,             \* every append since the last cold build was backtrack-sufficient
    fp_phase,         \* FixedPrefixTokenCache: "new", "ready" or "failed"
    fp_prefix,        \* self._prefix
    fp_split,         \* self._split
    fp_last,          \* the last call on the fixed-prefix cache
    caches,           \* further AppendOnlyPieceTokenCache objects of the process
    frame,            \* the locals and position of an append_ordinary call in progress
    observed,         \* what a reader on another thread last saw of the cache
    heap              \* the list objects of a cache and of its caller, by identity

apvars == <<phase, compiled, backtrack_pieces, text, pieces, piece_tokens,
            tokens, last, stream, suff>>

fpvars == <<fp_phase, fp_prefix, fp_split, fp_last>>

stepvars == <<frame, observed>>

vars == <<enc, apvars, fpvars, caches, stepvars, heap>>

\* The fields of the cache object.
Fields == [text |-> text, pieces |-> pieces, piece_tokens |-> piece_tokens,
           tokens |-> tokens]

NoSplit == [stable_tokens |-> <<>>, stable_text |-> <<>>, unstable_text |-> <<>>]

NoFpCall == [op |-> "none", suffix |-> <<>>, raised |-> "none", result |-> <<>>]

\* The fields of a cache object before its constructor ran.
NewCache ==
    [phase |-> "new", backtrack_pieces |-> 0, text |-> <<>>, pieces |-> <<>>,
     piece_tokens |-> <<>>, tokens |-> <<>>]

CacheIds == {1, 2}

CachesIdle == caches = [i \in CacheIds |-> NewCache]

\* No append_ordinary call is in progress.
NoFrame ==
    [pc |-> "idle", delta |-> <<>>, prev_piece_count |-> 0, prev_token_count |-> 0,
     start_piece_index |-> 0, reprocess_start |-> 0, rollback |-> 0, ms |-> <<>>,
     new_pieces |-> <<>>, new_piece_tokens |-> <<>>, tokens_to_append |-> <<>>]

\* The reader has not looked at the cache yet.
NoObservation ==
    [during |-> "none", text_ahead |-> FALSE, tokens_match |-> TRUE]

StepIdle ==
    /\ frame = NoFrame
    /\ observed = NoObservation

\* No list object exists and the caller holds none.
NoObjects == [obj |-> <<>>, held |-> <<>>]

HeapIdle == heap = NoObjects

FpIdle ==
    /\ fp_phase = "new"
    /\ fp_prefix = <<>>
    /\ fp_split = NoSplit
    /\ fp_last = NoFpCall

NoCall == [op |-> "none", arg |-> <<>>, k |-> 0, raised |-> "none",
           rollback_tokens |-> 0, tokens_to_append |-> <<>>, enc_calls |-> 0]

\* Fault: the tokens are not extended.
Extend_Noop(toks, more) == toks

\* list.extend: self._tokens.extend(piece_tokens)
Extend(toks, more) == toks \o more

\* The body of reset's loop, run over the matches ms of the pattern on t.
RECURSIVE ResetLoop(_, _, _)
ResetLoop(t, ms, st) ==
    IF ms = <<>> THEN st
    ELSE LET m == Head(ms)
             piece_text == Slice(t, m[1], m[2])
             toks == EncodeSinglePiece(piece_text)
         IN  ResetLoop(t, Tail(ms),
                       [pieces |-> Append(st.pieces, m),
                        piece_tokens |-> Append(st.piece_tokens, toks),
                        tokens |-> Extend(st.tokens, toks)])

\* Fault: reset keeps the old piece lists.
Clear_KeepsPieces(c) ==
    [pieces |-> c.pieces, piece_tokens |-> c.piece_tokens, tokens |-> <<>>]

\* Fault: reset keeps the old token list.
Clear_KeepsTokens(c) == [pieces |-> <<>>, piece_tokens |-> <<>>, tokens |-> c.tokens]

\* self._pieces = []; self._piece_tokens = []; self._tokens = []
Clear(c) == [pieces |-> <<>>, piece_tokens |-> <<>>, tokens |-> <<>>]

\* Fault: reset does not store the text.
WithText_NoText(t, st) ==
    [text |-> <<>>, pieces |-> st.pieces, piece_tokens |-> st.piece_tokens,
     tokens |-> st.tokens]

\* self._text = text, with the lists the loop built
WithText(t, st) ==
    [text |-> t, pieces |-> st.pieces, piece_tokens |-> st.piece_tokens,
     tokens |-> st.tokens]

\* self._text = ""; self._pieces = []; self._piece_tokens = [];
\* self._tokens = []: the fields the constructor sets before it calls reset.
FreshFields ==
    [text |-> <<>>, pieces |-> <<>>, piece_tokens |-> <<>>, tokens |-> <<>>]

\* reset(text) on the cache fields c: the fields after the call.
reset(e, c, t) == WithText(t, ResetLoop(t, Finditer(e, t), Clear(c)))

Init ==
    /\ phase = "new"
    /\ enc \in Encodings
    /\ compiled = FALSE
    /\ backtrack_pieces = 0
    /\ text = <<>>
    /\ pieces = <<>>
    /\ piece_tokens = <<>>
    /\ tokens = <<>>
    /\ last = NoCall
    /\ stream = <<>>
    /\ suff = TRUE
    /\ FpIdle
    /\ CachesIdle
    /\ StepIdle
    /\ HeapIdle

\* Fault: backtrack_pieces = 0 is accepted.
InvalidBacktrack_OffByOne(k) == k < 0

\* if backtrack_pieces < 1: raise ValueError
InvalidBacktrack(k) == k < 1

\* AppendOnlyPieceTokenCache(encoding, initial_text, backtrack_pieces=k)
Construct(initial_text, k) ==
    /\ phase = "new"
    /\ IF InvalidBacktrack(k)
       THEN /\ phase' = "failed"
            /\ last' = [NoCall EXCEPT !.op = "construct", !.arg = initial_text,
                                      !.k = k, !.raised = "ValueError"]
            /\ UNCHANGED <<enc, compiled, backtrack_pieces, text, pieces,
                           piece_tokens, tokens, stream, suff, fpvars, caches, stepvars, heap>>
       ELSE \E r \in {reset(enc, Fields, initial_text)} :
                /\ phase' = "ready"
                /\ compiled' = TRUE
                /\ backtrack_pieces' = k
                /\ text' = r.text
                /\ pieces' = r.pieces
                /\ piece_tokens' = r.piece_tokens
                /\ tokens' = r.tokens
                /\ last' = [NoCall EXCEPT !.op = "construct", !.arg = initial_text,
                                          !.k = k, !.enc_calls = Len(r.pieces)]
                /\ stream' = r.tokens
                /\ suff' = TRUE
                /\ UNCHANGED <<enc, fpvars, caches, stepvars, heap>>

\* cache.reset(t)
Reset(t) ==
    /\ phase = "ready"
    /\ \E r \in {reset(enc, Fields, t)} :
           /\ text' = r.text
           /\ pieces' = r.pieces
           /\ piece_tokens' = r.piece_tokens
           /\ tokens' = r.tokens
           /\ last' = [NoCall EXCEPT !.op = "reset", !.arg = t,
                                     !.enc_calls = Len(r.pieces)]
           /\ stream' = r.tokens
           /\ suff' = TRUE
    /\ UNCHANGED <<phase, enc, compiled, backtrack_pieces, fpvars,
                   caches, stepvars, heap>>

Min(a, b) == IF a <= b THEN a ELSE b

\* Fault: only the last piece is ever reprocessed.
StartPieceIndex_LastPieceOnly(k, prev_piece_count) == prev_piece_count - 1

\* b = min(backtrack_pieces, prev_piece_count); start_piece_index = prev_piece_count - b
StartPieceIndex(k, prev_piece_count) == prev_piece_count - Min(k, prev_piece_count)

\* Fault: the rollback counts the pieces of the old tail, not their tokens.
OldTailTokenCount_PieceCount(pts, start_piece_index) == Len(pts) - start_piece_index

\* old_tail_token_count: the token count of piece_tokens[start_piece_index:]
RECURSIVE OldTailTokenCount(_, _)
OldTailTokenCount(pts, start_piece_index) ==
    IF start_piece_index >= Len(pts) THEN 0
    ELSE Len(pts[start_piece_index + 1]) + OldTailTokenCount(pts, start_piece_index + 1)

\* Fault: the rolled-back tokens are left in place.
DelLast_Keeps(toks, rollback) == toks

\* Fault: one token is deleted whatever the rollback is.
DelLast_OneToken(toks, rollback) ==
    IF rollback # 0 THEN SubSeq(toks, 1, Len(toks) - 1) ELSE toks

\* Fault: the rolled-back tokens are deleted from the front.
DelLast_FromFront(toks, rollback) == SubSeq(toks, rollback + 1, Len(toks))

\* if rollback: del self._tokens[-rollback:]
DelLast(toks, rollback) ==
    IF rollback # 0 THEN SubSeq(toks, 1, Len(toks) - rollback) ELSE toks

\* Fault: only the start of a new piece is shifted.
ShiftPiece_StartOnly(reprocess_start, m) == <<reprocess_start + m[1], m[2]>>

\* Fault: the offsets of a new piece are left relative to tail_text.
ShiftPiece_NoShift(reprocess_start, m) == m

\* (reprocess_start + m.start(), reprocess_start + m.end())
ShiftPiece(reprocess_start, m) == <<reprocess_start + m[1], reprocess_start + m[2]>>

\* The body of append_ordinary's loop over the matches ms of the pattern on
\* tail_text.
RECURSIVE TailLoop(_, _, _, _)
TailLoop(tail_text, reprocess_start, ms, st) ==
    IF ms = <<>> THEN st
    ELSE LET m == Head(ms)
             piece_text == Slice(tail_text, m[1], m[2])
             toks == EncodeSinglePiece(piece_text)
         IN  TailLoop(tail_text, reprocess_start, Tail(ms),
                      [new_pieces |-> Append(st.new_pieces, ShiftPiece(reprocess_start, m)),
                       new_piece_tokens |-> Append(st.new_piece_tokens, toks),
                       tokens_to_append |-> Extend(st.tokens_to_append, toks)])

\* Fault: an empty new tail is taken for "nothing to replace".
ReplaceTail_KeepsOnEmpty(xs, start_piece_index, new) ==
    IF new = <<>> THEN xs ELSE SubSeq(xs, 1, start_piece_index) \o new

\* Fault: the whole list is replaced by the new tail.
ReplaceTail_OnlyNew(xs, start_piece_index, new) == new

\* Fault: the old tail is kept in front of the new one.
ReplaceTail_KeepsAll(xs, start_piece_index, new) == xs \o new

\* xs[:start_piece_index] + new
ReplaceTail(xs, start_piece_index, new) == SubSeq(xs, 1, start_piece_index) \o new

\* Fault: the empty delta is not short-circuited.
IsEmptyDelta_Never(delta) == FALSE

\* not delta
IsEmptyDelta(delta) == delta = <<>>

\* Fault: the TokenDelta of the empty-pieces branch carries no tokens.
ColdAppend_NoTokens(prev_token_count, r) ==
    [text |-> r.text, pieces |-> r.pieces, piece_tokens |-> r.piece_tokens,
     tokens |-> r.tokens, rollback_tokens |-> prev_token_count,
     tokens_to_append |-> <<>>, enc_calls |-> Len(r.pieces)]

\* The empty-pieces branch of append_ordinary: reset(self._text), then
\* TokenDelta(prev_token_count, list(self._tokens)).
ColdAppend(prev_token_count, r) ==
    [text |-> r.text, pieces |-> r.pieces, piece_tokens |-> r.piece_tokens,
     tokens |-> r.tokens, rollback_tokens |-> prev_token_count,
     tokens_to_append |-> r.tokens, enc_calls |-> Len(r.pieces)]

\* Fault: the populated branch does not extend the text.
CommitTail_StaleText(c, text_after, start_piece_index, rollback, t) ==
    [text |-> c.text,
     pieces |-> SubSeq(c.pieces, 1, start_piece_index) \o t.new_pieces,
     piece_tokens |-> SubSeq(c.piece_tokens, 1, start_piece_index) \o t.new_piece_tokens,
     tokens |-> SubSeq(c.tokens, 1, Len(c.tokens) - rollback) \o t.tokens_to_append,
     rollback_tokens |-> rollback,
     tokens_to_append |-> t.tokens_to_append,
     enc_calls |-> Len(t.new_pieces)]

\* The end of append_ordinary's populated branch: the tail t replaces the
\* pieces from start_piece_index on and its tokens extend the kept tokens.
CommitTail(c, text_after, start_piece_index, rollback, t) ==
    [text |-> text_after,
     pieces |-> ReplaceTail(c.pieces, start_piece_index, t.new_pieces),
     piece_tokens |-> ReplaceTail(c.piece_tokens, start_piece_index, t.new_piece_tokens),
     tokens |-> Extend(DelLast(c.tokens, rollback), t.tokens_to_append),
     rollback_tokens |-> rollback,
     tokens_to_append |-> t.tokens_to_append,
     enc_calls |-> Len(t.new_pieces)]

\* Fault: the populated branch matches and encodes the whole text again.
HotAppend_WholeText(e, k, c, text_after) ==
    LET all == ResetLoop(text_after, Finditer(e, text_after),
                         [pieces |-> <<>>, piece_tokens |-> <<>>, tokens |-> <<>>])
    IN  [text |-> text_after, pieces |-> all.pieces,
         piece_tokens |-> all.piece_tokens, tokens |-> all.tokens,
         rollback_tokens |-> Len(c.tokens), tokens_to_append |-> all.tokens,
         enc_calls |-> Len(all.pieces)]

\* The populated branch of append_ordinary.
HotAppend(e, k, c, text_after) ==
    LET start_piece_index == StartPieceIndex(k, Len(c.pieces))
        reprocess_start == c.pieces[start_piece_index + 1][1]
        tail_text == Slice(text_after, reprocess_start, Len(text_after))
    IN  CommitTail(c, text_after, start_piece_index,
                   OldTailTokenCount(c.piece_tokens, start_piece_index),
                   TailLoop(tail_text, reprocess_start, Finditer(e, tail_text),
                            [new_pieces |-> <<>>, new_piece_tokens |-> <<>>,
                             tokens_to_append |-> <<>>]))

\* append_ordinary(delta) on the cache fields c with backtrack_pieces k: the
\* fields after the call and the TokenDelta it returns.
append_ordinary(e, k, c, delta) ==
    IF IsEmptyDelta(delta)
    THEN [text |-> c.text, pieces |-> c.pieces, piece_tokens |-> c.piece_tokens,
          tokens |-> c.tokens, rollback_tokens |-> 0, tokens_to_append |-> <<>>,
          enc_calls |-> 0]
    ELSE IF Len(c.pieces) = 0
    THEN ColdAppend(Len(c.tokens), reset(e, c, c.text \o delta))
    ELSE HotAppend(e, k, c, c.text \o delta)

\* The consumer of a TokenDelta: drop the last rollback_tokens entries, then
\* extend with tokens_to_append.
ApplyDelta(s, rollback_tokens, tokens_to_append) ==
    SubSeq(s, 1, Len(s) - rollback_tokens) \o tokens_to_append

\* The backtrack assumption for one append: the segmentation of
\* text_after[reprocess_start..] agrees with the segmentation of the whole
\* text_after from reprocess_start on.
BacktrackSufficient(e, k, c, delta) ==
    \/ delta = <<>>
    \/ Len(c.pieces) = 0
    \/ LET text_after == c.text \o delta
           reprocess_start == c.pieces[StartPieceIndex(k, Len(c.pieces)) + 1][1]
           tail == Finditer(e, Slice(text_after, reprocess_start, Len(text_after)))
           FromStart(m) == m[1] >= reprocess_start
       IN  SelectSeq(Finditer(e, text_after), FromStart)
             = [i \in 1..Len(tail) |-> <<reprocess_start + tail[i][1],
                                         reprocess_start + tail[i][2]>>]

\* cache.append_ordinary(delta)
AppendOrdinary(delta) ==
    /\ phase = "ready"
    /\ Len(text) + Len(delta) <= MaxLen
    /\ \E r \in {append_ordinary(enc, backtrack_pieces, Fields, delta)} :
           /\ text' = r.text
           /\ pieces' = r.pieces
           /\ piece_tokens' = r.piece_tokens
           /\ tokens' = r.tokens
           /\ last' = [NoCall EXCEPT !.op = "append", !.arg = delta,
                                     !.rollback_tokens = r.rollback_tokens,
                                     !.tokens_to_append = r.tokens_to_append,
                                     !.enc_calls = r.enc_calls]
           /\ stream' = ApplyDelta(stream, r.rollback_tokens, r.tokens_to_append)
           /\ suff' = IF delta # <<>> /\ Len(pieces) = 0 THEN TRUE
                      ELSE suff /\ BacktrackSufficient(enc, backtrack_pieces, Fields, delta)
    /\ UNCHANGED <<phase, enc, compiled, backtrack_pieces, fpvars,
                   caches, stepvars, heap>>

Next ==
    \/ \E t \in Texts(MaxInit), k \in (-1)..MaxBacktrack : Construct(t, k)
    \/ \E t \in Texts(MaxReset) : Reset(t)
    \/ \E d \in Texts(MaxDelta) : AppendOrdinary(d)

Spec == Init /\ [][Next]_vars

\* ---------------------------------------------------- FixedPrefixTokenCache

\* Fault: only the lengths are compared.
StartsWith_LengthOnly(t, s) == Len(s) <= Len(t)

\* text.startswith(s)
StartsWith(t, s) == Len(s) <= Len(t) /\ SubSeq(t, 1, Len(s)) = s

\* Fault: the unstable text is not cut at the end of the stable text.
UnstableText_Whole(t, stable_text) == t

\* text[len(stable_text):]
UnstableText(t, stable_text) == Slice(t, Len(stable_text), Len(t))

\* stable_split_for_text(encoding, text): the StableSplit returned, or raised.
stable_split_for_text(e, t) ==
    LET stable_tokens == EncodeWithUnstable(e, t)
        stable_text == Decode(stable_tokens)
    IN  IF ~StartsWith(t, stable_text)
        THEN [raised |-> "ValueError", split |-> NoSplit]
        ELSE [raised |-> "none",
              split |-> [stable_tokens |-> stable_tokens,
                         stable_text |-> stable_text,
                         unstable_text |-> UnstableText(t, stable_text)]]

\* Fault: the unstable tail of the prefix is left out.
encode_ordinary_tail_SuffixOnly(e, split, suffix) == EncodeOrdinary(e, suffix)

\* encode_ordinary_tail(suffix)
encode_ordinary_tail(e, split, suffix) ==
    LET tail == split.unstable_text \o suffix
    IN  EncodeOrdinary(e, tail)

\* stable_prefix_token_count
stable_prefix_token_count(split) == Len(split.stable_tokens)

\* Fault: the stable tokens are put after the tail tokens.
encode_ordinary_TailFirst(e, split, suffix) ==
    encode_ordinary_tail(e, split, suffix) \o split.stable_tokens

\* encode_ordinary(suffix)
encode_ordinary(e, split, suffix) ==
    split.stable_tokens \o encode_ordinary_tail(e, split, suffix)

ApIdle ==
    /\ phase = "new"
    /\ compiled = FALSE
    /\ backtrack_pieces = 0
    /\ text = <<>>
    /\ pieces = <<>>
    /\ piece_tokens = <<>>
    /\ tokens = <<>>
    /\ last = NoCall
    /\ stream = <<>>
    /\ suff = TRUE

InitFP ==
    /\ enc \in Encodings
    /\ ApIdle
    /\ FpIdle
    /\ CachesIdle
    /\ StepIdle
    /\ HeapIdle

\* FixedPrefixTokenCache(encoding, prefix)
FpConstruct(prefix) ==
    /\ fp_phase = "new"
    /\ \E r \in {stable_split_for_text(enc, prefix)} :
           IF r.raised # "none"
           THEN /\ fp_phase' = "failed"
                /\ fp_last' = [NoFpCall EXCEPT !.op = "construct", !.suffix = prefix,
                                               !.raised = r.raised]
                /\ UNCHANGED <<fp_prefix, fp_split>>
           ELSE /\ fp_phase' = "ready"
                /\ fp_prefix' = prefix
                /\ fp_split' = r.split
                /\ fp_last' = [NoFpCall EXCEPT !.op = "construct", !.suffix = prefix]
    /\ UNCHANGED <<enc, apvars, caches, stepvars, heap>>

\* cache.encode_ordinary(suffix)
FpEncodeOrdinary(suffix) ==
    /\ fp_phase = "ready"
    /\ fp_last' = [NoFpCall EXCEPT !.op = "encode_ordinary", !.suffix = suffix,
                                   !.result = encode_ordinary(enc, fp_split, suffix)]
    /\ UNCHANGED <<enc, apvars, caches, stepvars, heap, fp_phase, fp_prefix, fp_split>>

\* cache.encode_ordinary_tail(suffix)
FpEncodeOrdinaryTail(suffix) ==
    /\ fp_phase = "ready"
    /\ fp_last' = [NoFpCall EXCEPT !.op = "encode_ordinary_tail", !.suffix = suffix,
                                   !.result = encode_ordinary_tail(enc, fp_split, suffix)]
    /\ UNCHANGED <<enc, apvars, caches, stepvars, heap, fp_phase, fp_prefix, fp_split>>

NextFP ==
    \/ \E p \in Texts(MaxPrefix) : FpConstruct(p)
    \/ \E x \in Texts(MaxSuffix) : FpEncodeOrdinary(x)
    \/ \E x \in Texts(MaxSuffix) : FpEncodeOrdinaryTail(x)

SpecFP == InitFP /\ [][NextFP]_vars

\* ------------------------------------------------------- encoder failures

\* Fault: the range of a piece is recorded before the piece is encoded.
PartialReset_RangeRecordedFirst(e, c, t, n) ==
    LET ms == Finditer(e, t)
        st == ResetLoop(t, SubSeq(ms, 1, n - 1), Clear(c))
    IN  [text |-> t, pieces |-> Append(st.pieces, ms[n]),
         piece_tokens |-> st.piece_tokens, tokens |-> st.tokens]

\* reset(t) cut short: encoding._encode_single_piece raises on the n-th
\* match, after the text was stored, the lists were cleared and n - 1 pieces
\* were recorded.
PartialReset(e, c, t, n) ==
    WithText(t, ResetLoop(t, SubSeq(Finditer(e, t), 1, n - 1), Clear(c)))

\* The matches append_ordinary's populated branch runs the encoder on.
TailMatches(e, k, c, text_after) ==
    LET reprocess_start == c.pieces[StartPieceIndex(k, Len(c.pieces)) + 1][1]
    IN  Finditer(e, Slice(text_after, reprocess_start, Len(text_after)))

\* The populated branch cut short: encoding._encode_single_piece raises in
\* the loop, after self._text += delta and del self._tokens[-rollback:], and
\* before the tails of the piece lists are replaced.
PartialHotAppend(k, c, text_after) ==
    LET start_piece_index == StartPieceIndex(k, Len(c.pieces))
    IN  [text |-> text_after, pieces |-> c.pieces, piece_tokens |-> c.piece_tokens,
         tokens |-> DelLast(c.tokens, OldTailTokenCount(c.piece_tokens, start_piece_index))]

\* cache.append_ordinary(delta) where the encoder raises on the n-th piece it
\* is given; the exception propagates to the caller, who gets no TokenDelta
\* and drops the stream built from the earlier ones.
AppendOrdinaryFails(delta, n) ==
    /\ phase = "ready"
    /\ ~IsEmptyDelta(delta)
    /\ Len(text) + Len(delta) <= MaxLen
    /\ \E text_after \in {text \o delta} :
           /\ n <= Len(IF Len(pieces) = 0 THEN Finditer(enc, text_after)
                       ELSE TailMatches(enc, backtrack_pieces, Fields, text_after))
           /\ \E r \in {IF Len(pieces) = 0
                        THEN PartialReset(enc, Fields, text_after, n)
                        ELSE PartialHotAppend(backtrack_pieces, Fields, text_after)} :
                  /\ text' = r.text
                  /\ pieces' = r.pieces
                  /\ piece_tokens' = r.piece_tokens
                  /\ tokens' = r.tokens
    /\ phase' = "poisoned"
    /\ last' = [NoCall EXCEPT !.op = "append", !.arg = delta,
                              !.raised = "EncoderError", !.enc_calls = n]
    /\ stream' = <<>>
    /\ suff' = TRUE
    /\ UNCHANGED <<enc, compiled, backtrack_pieces, fpvars, caches, stepvars, heap>>

\* cache.reset(t) where the encoder raises on the n-th piece.
ResetFails(t, n) ==
    /\ phase = "ready"
    /\ n <= Len(Finditer(enc, t))
    /\ \E r \in {PartialReset(enc, Fields, t, n)} :
           /\ text' = r.text
           /\ pieces' = r.pieces
           /\ piece_tokens' = r.piece_tokens
           /\ tokens' = r.tokens
    /\ phase' = "poisoned"
    /\ last' = [NoCall EXCEPT !.op = "reset", !.arg = t,
                              !.raised = "EncoderError", !.enc_calls = n]
    /\ stream' = <<>>
    /\ suff' = TRUE
    /\ UNCHANGED <<enc, compiled, backtrack_pieces, fpvars, caches, stepvars, heap>>

\* AppendOnlyPieceTokenCache(encoding, initial_text, backtrack_pieces=k) where
\* the encoder raises on the n-th piece of reset(initial_text): no object is
\* returned to the caller.
ConstructFails(initial_text, k, n) ==
    /\ phase = "new"
    /\ ~InvalidBacktrack(k)
    /\ n <= Len(Finditer(enc, initial_text))
    /\ \E r \in {PartialReset(enc, Fields, initial_text, n)} :
           /\ text' = r.text
           /\ pieces' = r.pieces
           /\ piece_tokens' = r.piece_tokens
           /\ tokens' = r.tokens
    /\ phase' = "failed"
    /\ compiled' = TRUE
    /\ backtrack_pieces' = k
    /\ last' = [NoCall EXCEPT !.op = "construct", !.arg = initial_text, !.k = k,
                              !.raised = "EncoderError", !.enc_calls = n]
    /\ UNCHANGED <<enc, stream, suff, fpvars, caches, stepvars, heap>>

\* The calls on one cache over an encoder that may raise.
NextFail ==
    \/ \E t \in Texts(MaxFailLen), k \in (-1)..MaxBacktrack : Construct(t, k)
    \/ \E t \in Texts(MaxFailLen) : Reset(t)
    \/ \E d \in Texts(MaxFailDelta) :
           Len(text) + Len(d) <= MaxFailText /\ AppendOrdinary(d)
    \/ \E d \in Texts(MaxFailDelta), n \in 1..MaxFailText :
           Len(text) + Len(d) <= MaxFailText /\ AppendOrdinaryFails(d, n)
    \/ \E t \in Texts(MaxFailLen), n \in 1..MaxFailLen : ResetFails(t, n)
    \/ \E t \in Texts(MaxFailLen), k \in 1..MaxBacktrack, n \in 1..MaxFailLen :
           ConstructFails(t, k, n)

SpecFail == Init /\ [][NextFail]_vars

\* ------------------------------------------------------ a missing encoder

\* encoding = None
NoEncoder == "none"

\* AppendOnlyPieceTokenCache(None, initial_text, backtrack_pieces=k): the
\* check of backtrack_pieces comes first; otherwise encoding._pat_str is
\* looked up on None, which raises AttributeError before anything is compiled.
ConstructWithoutEncoder(initial_text, k) ==
    /\ phase = "new"
    /\ enc = NoEncoder
    /\ phase' = "failed"
    /\ last' = [NoCall EXCEPT !.op = "construct", !.arg = initial_text, !.k = k,
                              !.raised = IF InvalidBacktrack(k) THEN "ValueError"
                                         ELSE "AttributeError"]
    /\ UNCHANGED <<enc, compiled, backtrack_pieces, text, pieces, piece_tokens,
                   tokens, stream, suff, fpvars, caches, stepvars, heap>>

\* FixedPrefixTokenCache(None, prefix): stable_split_for_text looks up
\* encoding.encode_with_unstable on None, which raises AttributeError.
FpConstructWithoutEncoder(prefix) ==
    /\ fp_phase = "new"
    /\ enc = NoEncoder
    /\ fp_phase' = "failed"
    /\ fp_last' = [NoFpCall EXCEPT !.op = "construct", !.suffix = prefix,
                                   !.raised = "AttributeError"]
    /\ UNCHANGED <<enc, apvars, caches, stepvars, heap, fp_prefix, fp_split>>

InitNoEncoder ==
    /\ enc = NoEncoder
    /\ ApIdle
    /\ FpIdle
    /\ CachesIdle
    /\ StepIdle
    /\ HeapIdle

NextNoEncoder ==
    \/ \E t \in Texts(MaxInit), k \in (-1)..MaxBacktrack : ConstructWithoutEncoder(t, k)
    \/ \E p \in Texts(MaxPrefix) : FpConstructWithoutEncoder(p)

SpecNoEncoder == InitNoEncoder /\ [][NextNoEncoder]_vars

\* ------------------------------------------ several caches in one process

\* Fault: the fields are attributes of the class, shared by every instance.
Store_ClassAttributes(cs, i, c) == [j \in DOMAIN cs |-> c]

\* self._text = ..., self._pieces = ..., self._piece_tokens = ...,
\* self._tokens = ...: the fields written are those of the instance self.
Store(cs, i, c) == [cs EXCEPT ![i] = c]

\* The fields of cache object c that reset and append_ordinary work on.
FieldsOf(c) ==
    [text |-> c.text, pieces |-> c.pieces, piece_tokens |-> c.piece_tokens,
     tokens |-> c.tokens]

\* Cache object c with the fields a call left in r.
WithFields(c, r) ==
    [c EXCEPT !.text = r.text, !.pieces = r.pieces,
              !.piece_tokens = r.piece_tokens, !.tokens = r.tokens]

\* The length of the texts the caches of the process hold.
RECURSIVE TextHeld(_)
TextHeld(ids) ==
    IF ids = {} THEN Len(fp_prefix)
    ELSE LET i == CHOOSE j \in ids : TRUE
         IN  Len(caches[i].text) + TextHeld(ids \ {i})

\* The texts that fit next to those held, cache i's own text being replaced.
TextsFitting(i) == Texts(MaxSharedLen - TextHeld(CacheIds \ {i}))

\* caches[i] = AppendOnlyPieceTokenCache(encoding, initial_text, backtrack_pieces=k)
CacheConstruct(i, initial_text, k) ==
    /\ caches[i].phase = "new"
    /\ ~InvalidBacktrack(k)
    /\ \E r \in {reset(enc, FieldsOf(caches[i]), initial_text)} :
           caches' = Store(caches, i,
                           WithFields([caches[i] EXCEPT !.phase = "ready",
                                                        !.backtrack_pieces = k], r))
    /\ UNCHANGED <<enc, apvars, fpvars, stepvars, heap>>

\* caches[i].reset(t)
CacheReset(i, t) ==
    /\ caches[i].phase = "ready"
    /\ \E r \in {reset(enc, FieldsOf(caches[i]), t)} :
           caches' = Store(caches, i, WithFields(caches[i], r))
    /\ UNCHANGED <<enc, apvars, fpvars, stepvars, heap>>

\* caches[i].append_ordinary(delta)
CacheAppendOrdinary(i, delta) ==
    /\ caches[i].phase = "ready"
    /\ Len(caches[i].text) + Len(delta) <= MaxSharedLen - TextHeld(CacheIds \ {i})
    /\ \E r \in {append_ordinary(enc, caches[i].backtrack_pieces,
                                 FieldsOf(caches[i]), delta)} :
           caches' = Store(caches, i, WithFields(caches[i], r))
    /\ UNCHANGED <<enc, apvars, fpvars, stepvars, heap>>

\* Whole operations on the caches of one process, in any order: the
\* append-only caches, built with the smallest or the largest
\* backtrack_pieces, and a fixed-prefix cache, all over the same encoding.
NextShared ==
    \/ \E i \in CacheIds, k \in {1, MaxBacktrack} :
           \E t \in TextsFitting(i) : CacheConstruct(i, t, k)
    \/ \E i \in CacheIds : \E t \in TextsFitting(i) : CacheReset(i, t)
    \/ \E i \in CacheIds, d \in Texts(MaxDelta) : CacheAppendOrdinary(i, d)
    \/ \E p \in Texts(MaxSharedLen - TextHeld(CacheIds)) :
           fp_phase = "new" /\ FpConstruct(p)
    \/ \E x \in Texts(MaxSharedLen - TextHeld(CacheIds)) : FpEncodeOrdinary(x)

\* No cache is constructed yet; the encoding is the default one, cl100k_base.
InitShared ==
    /\ enc = "cl"
    /\ ApIdle
    /\ FpIdle
    /\ CachesIdle
    /\ StepIdle
    /\ HeapIdle

SpecShared == InitShared /\ [][NextShared]_vars

\* ------------------------------ append_ordinary, statement by statement
\* One thread runs append_ordinary while a reader on another thread looks at
\* the fields of the cache between any two statements.

RECURSIVE Flatten(_)
Flatten(ss) == IF ss = <<>> THEN <<>> ELSE Head(ss) \o Flatten(Tail(ss))

\* Lines 77-83: the empty delta returns at once; otherwise the counts are
\* taken and self._text += delta.
BeginAppend(delta) ==
    /\ phase = "ready"
    /\ frame.pc = "idle"
    /\ Len(text) + Len(delta) <= MaxStepText
    /\ IF IsEmptyDelta(delta)
       THEN /\ last' = [NoCall EXCEPT !.op = "append", !.arg = delta]
            /\ UNCHANGED <<text, frame, suff>>
       ELSE /\ text' = text \o delta
            /\ frame' = [NoFrame EXCEPT !.pc = "extended", !.delta = delta,
                                        !.prev_piece_count = Len(pieces),
                                        !.prev_token_count = Len(tokens)]
            /\ suff' = IF Len(pieces) = 0 THEN TRUE
                       ELSE suff /\ BacktrackSufficient(enc, backtrack_pieces,
                                                        Fields, delta)
            /\ UNCHANGED last
    /\ UNCHANGED <<phase, enc, compiled, backtrack_pieces, pieces, piece_tokens,
                   tokens, stream, observed, fpvars, caches, heap>>

\* Lines 85-87: the empty-pieces branch, reset(self._text) and the return.
ColdBranch ==
    /\ frame.pc = "extended"
    /\ frame.prev_piece_count = 0
    /\ \E r \in {ColdAppend(frame.prev_token_count, reset(enc, Fields, text))} :
           /\ text' = r.text
           /\ pieces' = r.pieces
           /\ piece_tokens' = r.piece_tokens
           /\ tokens' = r.tokens
           /\ last' = [NoCall EXCEPT !.op = "append", !.arg = frame.delta,
                                     !.rollback_tokens = r.rollback_tokens,
                                     !.tokens_to_append = r.tokens_to_append,
                                     !.enc_calls = r.enc_calls]
           /\ stream' = ApplyDelta(stream, r.rollback_tokens, r.tokens_to_append)
    /\ frame' = NoFrame
    /\ UNCHANGED <<phase, enc, compiled, backtrack_pieces, suff, observed, fpvars,
                   caches, heap>>

\* Lines 89-97: b, start_piece_index, reprocess_start and the token count of
\* the old tail.
PlanTail ==
    /\ frame.pc = "extended"
    /\ frame.prev_piece_count # 0
    /\ \E start_piece_index \in
             {StartPieceIndex(backtrack_pieces, frame.prev_piece_count)} :
           frame' = [frame EXCEPT
                        !.pc = "planned",
                        !.start_piece_index = start_piece_index,
                        !.reprocess_start = pieces[start_piece_index + 1][1],
                        !.rollback = OldTailTokenCount(piece_tokens, start_piece_index)]
    /\ UNCHANGED <<enc, apvars, observed, fpvars, caches, heap>>

\* Lines 98-104: del self._tokens[-rollback:], tail_text and the empty locals.
Rollback ==
    /\ frame.pc = "planned"
    /\ tokens' = DelLast(tokens, frame.rollback)
    /\ frame' = [frame EXCEPT
                    !.pc = "loop",
                    !.ms = Finditer(enc, Slice(text, frame.reprocess_start, Len(text)))]
    /\ UNCHANGED <<phase, enc, compiled, backtrack_pieces, text, pieces,
                   piece_tokens, last, stream, suff, observed, fpvars, caches, heap>>

\* Lines 106-111: one iteration of the loop over the matches on tail_text.
LoopStep ==
    /\ frame.pc = "loop"
    /\ frame.ms # <<>>
    /\ \E st \in {TailLoop(Slice(text, frame.reprocess_start, Len(text)),
                            frame.reprocess_start, <<Head(frame.ms)>>,
                            [new_pieces |-> frame.new_pieces,
                             new_piece_tokens |-> frame.new_piece_tokens,
                             tokens_to_append |-> frame.tokens_to_append])} :
           frame' = [frame EXCEPT !.ms = Tail(@),
                                  !.new_pieces = st.new_pieces,
                                  !.new_piece_tokens = st.new_piece_tokens,
                                  !.tokens_to_append = st.tokens_to_append]
    /\ UNCHANGED <<enc, apvars, observed, fpvars, caches, heap>>

\* Line 113: self._pieces = self._pieces[:start_piece_index] + new_pieces
ReplacePieces ==
    /\ frame.pc = "loop"
    /\ frame.ms = <<>>
    /\ pieces' = ReplaceTail(pieces, frame.start_piece_index, frame.new_pieces)
    /\ frame' = [frame EXCEPT !.pc = "pieces_replaced"]
    /\ UNCHANGED <<phase, enc, compiled, backtrack_pieces, text, piece_tokens,
                   tokens, last, stream, suff, observed, fpvars, caches, heap>>

\* Line 114: self._piece_tokens = self._piece_tokens[:start_piece_index]
\* + new_piece_tokens
ReplacePieceTokens ==
    /\ frame.pc = "pieces_replaced"
    /\ piece_tokens' = ReplaceTail(piece_tokens, frame.start_piece_index,
                                   frame.new_piece_tokens)
    /\ frame' = [frame EXCEPT !.pc = "piece_tokens_replaced"]
    /\ UNCHANGED <<phase, enc, compiled, backtrack_pieces, text, pieces, tokens,
                   last, stream, suff, observed, fpvars, caches, heap>>

\* Line 115: self._tokens.extend(tokens_to_append)
ExtendTokens ==
    /\ frame.pc = "piece_tokens_replaced"
    /\ tokens' = Extend(tokens, frame.tokens_to_append)
    /\ frame' = [frame EXCEPT !.pc = "tokens_extended"]
    /\ UNCHANGED <<phase, enc, compiled, backtrack_pieces, text, pieces,
                   piece_tokens, last, stream, suff, observed, fpvars, caches, heap>>

\* Line 117: return TokenDelta(rollback, tokens_to_append); the consumer
\* applies it.
ReturnDelta ==
    /\ frame.pc = "tokens_extended"
    /\ last' = [NoCall EXCEPT !.op = "append", !.arg = frame.delta,
                              !.rollback_tokens = frame.rollback,
                              !.tokens_to_append = frame.tokens_to_append,
                              !.enc_calls = Len(frame.new_pieces)]
    /\ stream' = ApplyDelta(stream, frame.rollback, frame.tokens_to_append)
    /\ frame' = NoFrame
    /\ UNCHANGED <<phase, enc, compiled, backtrack_pieces, text, pieces,
                   piece_tokens, tokens, suff, observed, fpvars, caches, heap>>

\* The reader looks at the fields as they are at this moment: whether the
\* text runs past the last piece, and whether the tokens are the
\* concatenation of piece_tokens.
Read ==
    /\ phase = "ready"
    /\ observed' = [during |-> frame.pc,
                    text_ahead |-> IF pieces = <<>> THEN text # <<>>
                                   ELSE pieces[Len(pieces)][2] < Len(text),
                    tokens_match |-> tokens = Flatten(piece_tokens)]
    /\ UNCHANGED <<enc, apvars, frame, fpvars, caches, heap>>

\* The writer's calls, taken statement by statement inside append_ordinary,
\* interleaved with the reader.
NextSteps ==
    \/ \E t \in Texts(MaxStepLen), k \in 1..MaxBacktrack : Construct(t, k)
    \/ \E t \in Texts(MaxStepLen) : frame.pc = "idle" /\ Reset(t)
    \/ \E d \in Texts(MaxStepDelta) : BeginAppend(d)
    \/ ColdBranch
    \/ PlanTail
    \/ Rollback
    \/ LoopStep
    \/ ReplacePieces
    \/ ReplacePieceTokens
    \/ ExtendTokens
    \/ ReturnDelta
    \/ Read

SpecSteps == Init /\ [][NextSteps]_vars

\* ------------------------------------------------- list objects, by identity
\* A Python list is an object: heap.obj maps the id of every live list to
\* its value, a field that holds a list holds its id, and a statement either
\* makes a new object or changes one in place. heap.held is what the caller
\* kept of the lists the calls returned: the id of the list and the value
\* the list had when it was returned. An id names an object only
\* up to renaming, so after each call the live objects are numbered anew, in
\* the order the cache and then the caller refer to them.

\* The id of a new object: the least one that no live object has.
FreshId(o) ==
    CHOOSE i \in 1..(Cardinality(DOMAIN o) + 1) :
        /\ i \notin DOMAIN o
        /\ \A j \in 1..(i - 1) : j \in DOMAIN o

\* [] or list(iterable): a new list object with the value v.
New(o, v) == [obj |-> (FreshId(o) :> v) @@ o, id |-> FreshId(o)]

\* A new list object for each value of vals, in order.
RECURSIVE NewAll(_, _)
NewAll(o, vals) ==
    IF vals = <<>> THEN [obj |-> o, ids |-> <<>>]
    ELSE LET n == New(o, Head(vals))
             rest == NewAll(n.obj, Tail(vals))
         IN  [obj |-> rest.obj, ids |-> <<n.id>> \o rest.ids]

\* Fault: the list itself is handed out, not a copy.
ListCopy_SameObject(o, a) == [obj |-> o, id |-> a]

\* list(self._tokens): a new list object with the value of the list a.
ListCopy(o, a) == New(o, o[a])

\* Fault: the left operand is extended in place and returned (a += v).
ListConcat_InPlace(o, a, v) == [obj |-> [o EXCEPT ![a] = @ \o v], id |-> a]

\* a + v: a new list object, the operands are left as they are.
ListConcat(o, a, v) == New(o, o[a] \o v)

\* The caller keeps the list a call returned, next to the list of the call
\* before it that returned one.
Retain(h, entry) ==
    [h EXCEPT !.held = IF h.held = <<>> THEN <<entry>>
                       ELSE <<h.held[Len(h.held)], entry>>]

\* The number the object x gets: its place among the distinct live objects
\* of refs, in the order of their first mention.
Renumbered(o, refs, x) ==
    LET first == CHOOSE i \in 1..Len(refs) :
                     refs[i] = x /\ \A j \in 1..(i - 1) : refs[j] # x
    IN  Cardinality({refs[j] : j \in 1..first} \cap DOMAIN o)

\* The objects refs mentions, numbered anew; the others are freed.
Renumber(o, refs) ==
    LET live == {refs[i] : i \in 1..Len(refs)} \cap DOMAIN o
    IN  [n \in 1..Cardinality(live) |->
            o[CHOOSE x \in live : Renumbered(o, refs, x) = n]]

\* The caller's entries with their ids numbered anew.
HeldRenumbered(o, refs, held) ==
    [i \in 1..Len(held) |-> [held[i] EXCEPT !.id = Renumbered(o, refs, @)]]

\* An AppendOnlyPieceTokenCache before its constructor ran.
NewCacheObject ==
    [obj |-> <<>>, held |-> <<>>, phase |-> "new", backtrack_pieces |-> 0,
     text |-> <<>>, pieces |-> <<>>, piece_tokens |-> <<>>, tokens |-> 0]

\* The lists the cache and then the caller refer to.
Refs(h) ==
    <<h.tokens>> \o h.piece_tokens \o [i \in 1..Len(h.held) |-> h.held[i].id]

\* Objects nothing refers to any more are freed.
Collect(h) ==
    LET refs == Refs(h)
    IN  [h EXCEPT !.obj = Renumber(h.obj, refs),
                  !.tokens = Renumbered(h.obj, refs, @),
                  !.piece_tokens = [i \in 1..Len(@) |-> Renumbered(h.obj, refs, @[i])],
                  !.held = HeldRenumbered(h.obj, refs, @)]

\* The values of the fields of the cache, read through the ids.
FieldsIn(h) ==
    [text |-> h.text, pieces |-> h.pieces,
     piece_tokens |-> [i \in 1..Len(h.piece_tokens) |-> h.obj[h.piece_tokens[i]]],
     tokens |-> IF h.tokens \in DOMAIN h.obj THEN h.obj[h.tokens] ELSE <<>>]

\* reset(t) on the objects, r being the values reset computes: self._tokens
\* = [] and each piece_tokens = list(...) are new objects,
\* self._tokens.extend changes the new list in place.
ResetObjects(h, r) ==
    LET toks == New(h.obj, <<>>)
        pts == NewAll(toks.obj, r.piece_tokens)
    IN  [h EXCEPT !.text = r.text, !.pieces = r.pieces,
                  !.piece_tokens = pts.ids, !.tokens = toks.id,
                  !.obj = [pts.obj EXCEPT ![toks.id] = Extend(@, r.tokens)]]

\* The empty-pieces branch on the objects: reset(self._text), then
\* list(self._tokens) is returned.
ColdAppendObjects(h, r) ==
    LET after == ResetObjects(h, r)
        copy == ListCopy(after.obj, after.tokens)
    IN  [heap |-> [after EXCEPT !.obj = copy.obj], returned |-> copy.id,
         branch |-> "empty-pieces"]

\* The populated branch on the objects, r being the values it computes: del
\* and extend change self._tokens in place, the kept piece lists stay the
\* objects they were, each new piece_tokens and tokens_to_append are new
\* objects.
HotAppendObjects(h, r) ==
    LET start_piece_index == StartPieceIndex(h.backtrack_pieces, Len(h.pieces))
        cut == [h.obj EXCEPT ![h.tokens] = DelLast(@, r.rollback_tokens)]
        pts == NewAll(cut, SubSeq(r.piece_tokens, start_piece_index + 1,
                                  Len(r.piece_tokens)))
        out == New(pts.obj, r.tokens_to_append)
    IN  [heap |-> [h EXCEPT !.text = r.text, !.pieces = r.pieces,
                            !.piece_tokens = ReplaceTail(h.piece_tokens,
                                                         start_piece_index, pts.ids),
                            !.obj = [out.obj EXCEPT
                                        ![h.tokens] = Extend(@, r.tokens_to_append)]],
         returned |-> out.id, branch |-> "populated"]

\* append_ordinary(delta) on the objects, r being the values it computes:
\* the cache after the call and the id of the tokens_to_append list of the
\* TokenDelta it returns.
AppendObjects(h, delta, r) ==
    IF IsEmptyDelta(delta)
    THEN LET out == New(h.obj, <<>>)
         IN  [heap |-> [h EXCEPT !.obj = out.obj], returned |-> out.id,
              branch |-> "empty-delta"]
    ELSE IF Len(h.pieces) = 0 THEN ColdAppendObjects(h, r)
    ELSE HotAppendObjects(h, r)

\* AppendOnlyPieceTokenCache(encoding, initial_text, backtrack_pieces=k)
HeapConstruct(initial_text, k) ==
    /\ heap.phase = "new"
    /\ ~InvalidBacktrack(k)
    /\ \E r \in {reset(enc, FieldsIn(heap), initial_text)} :
       \E after \in {ResetObjects([heap EXCEPT !.phase = "ready",
                                               !.backtrack_pieces = k], r)} :
           heap' = Collect(after)
    /\ UNCHANGED <<enc, apvars, fpvars, caches, stepvars>>

\* cache.reset(t)
HeapReset(t) ==
    /\ heap.phase = "ready"
    /\ \E r \in {reset(enc, FieldsIn(heap), t)} :
       \E after \in {ResetObjects(heap, r)} :
           heap' = Collect(after)
    /\ UNCHANGED <<enc, apvars, fpvars, caches, stepvars>>

\* cache.append_ordinary(delta); the caller keeps tokens_to_append in place
\* of the list it held, or lets it go and holds on to the list it had.
HeapAppendOrdinary(delta) ==
    /\ heap.phase = "ready"
    /\ Len(heap.text) + Len(delta) <= MaxHeapText
    /\ \E r \in {append_ordinary(enc, heap.backtrack_pieces, FieldsIn(heap), delta)} :
       \E a \in {AppendObjects(heap, delta, r)} :
       \E kept \in {a.heap, [a.heap EXCEPT !.held = <<[id |-> a.returned,
                                                        was |-> a.heap.obj[a.returned],
                                                        branch |-> a.branch]>>]} :
           heap' = Collect(kept)
    /\ UNCHANGED <<enc, apvars, fpvars, caches, stepvars>>

InitHeap ==
    /\ enc \in Encodings
    /\ ApIdle
    /\ FpIdle
    /\ CachesIdle
    /\ StepIdle
    /\ heap = NewCacheObject

NextHeap ==
    \/ \E t \in Texts(MaxHeapLen), k \in 1..MaxBacktrack : HeapConstruct(t, k)
    \/ \E t \in Texts(MaxHeapLen) : HeapReset(t)
    \/ \E d \in Texts(MaxHeapDelta) : HeapAppendOrdinary(d)

SpecHeap == InitHeap /\ [][NextHeap]_vars

\* A FixedPrefixTokenCache before its constructor ran.
NewFpObject ==
    [obj |-> <<>>, held |-> <<>>, phase |-> "new", prefix |-> <<>>,
     stable_tokens |-> 0, stable_text |-> <<>>, unstable_text |-> <<>>]

\* The lists the fixed-prefix cache and then the caller refer to.
RefsFp(h) == <<h.stable_tokens>> \o [i \in 1..Len(h.held) |-> h.held[i].id]

\* Objects nothing refers to any more are freed.
CollectFp(h) ==
    LET refs == RefsFp(h)
    IN  [h EXCEPT !.obj = Renumber(h.obj, refs),
                  !.stable_tokens = Renumbered(h.obj, refs, @),
                  !.held = HeldRenumbered(h.obj, refs, @)]

\* self._split, its list read through the id.
SplitIn(h) ==
    [stable_tokens |-> h.obj[h.stable_tokens], stable_text |-> h.stable_text,
     unstable_text |-> h.unstable_text]

\* FixedPrefixTokenCache(encoding, prefix): stable_tokens=list(stable_tokens)
\* is a new object.
HeapFpConstruct(prefix) ==
    /\ heap.phase = "new"
    /\ \E r \in {stable_split_for_text(enc, prefix)} :
           IF r.raised # "none"
           THEN heap' = [heap EXCEPT !.phase = "failed"]
           ELSE \E n \in {New(heap.obj, r.split.stable_tokens)} :
                    heap' = [heap EXCEPT !.phase = "ready", !.prefix = prefix,
                                         !.obj = n.obj, !.stable_tokens = n.id,
                                         !.stable_text = r.split.stable_text,
                                         !.unstable_text = r.split.unstable_text]
    /\ UNCHANGED <<enc, apvars, fpvars, caches, stepvars>>

\* cache.encode_ordinary(suffix): the encoder's list for the tail is a new
\* object, and so is self._split.stable_tokens + tail; the caller keeps it
\* next to the list of the encode_ordinary call before.
HeapFpEncodeOrdinary(suffix) ==
    /\ heap.phase = "ready"
    /\ \E tail \in {New(heap.obj, encode_ordinary_tail(enc, SplitIn(heap), suffix))} :
       \E sum \in {ListConcat(tail.obj, heap.stable_tokens, tail.obj[tail.id])} :
       \E kept \in {Retain([heap EXCEPT !.obj = sum.obj],
                            [id |-> sum.id, was |-> sum.obj[sum.id],
                             suffix |-> suffix])} :
           heap' = CollectFp(kept)
    /\ UNCHANGED <<enc, apvars, fpvars, caches, stepvars>>

\* cache.encode_ordinary_tail(suffix): the encoder's list is returned; the
\* caller uses it and lets it go.
HeapFpEncodeOrdinaryTail(suffix) ==
    /\ heap.phase = "ready"
    /\ \E tail \in {New(heap.obj, encode_ordinary_tail(enc, SplitIn(heap), suffix))} :
           heap' = CollectFp([heap EXCEPT !.obj = tail.obj])
    /\ UNCHANGED <<enc, apvars, fpvars, caches, stepvars>>

InitFpHeap ==
    /\ enc \in Encodings
    /\ ApIdle
    /\ FpIdle
    /\ CachesIdle
    /\ StepIdle
    /\ heap = NewFpObject

NextFpHeap ==
    \/ \E p \in Texts(MaxHeapPrefix) : HeapFpConstruct(p)
    \/ \E x \in Texts(MaxHeapSuffix) : HeapFpEncodeOrdinary(x)
    \/ \E x \in Texts(MaxHeapSuffix) : HeapFpEncodeOrdinaryTail(x)

SpecFpHeap == InitFpHeap /\ [][NextFpHeap]_vars

\* ------------------------------------------------------------------ claims

NonEmptyAppend == phase = "ready" /\ last.op = "append" /\ last.arg # <<>>

\* C1: when every append was backtrack-sufficient, after each append_ordinary
\* call cache.tokens equals encoder.encode_ordinary of the whole text, the
\* initial text followed by all deltas.
C1_AppendsMatchColdEncode ==
    (phase = "ready" /\ suff) => tokens = EncodeOrdinary(enc, text)

\* An append on a populated cache that kept a prefix of the tokens and
\* re-encoded only the tail.
C1_Witness ==
    /\ NonEmptyAppend
    /\ suff
    /\ last.rollback_tokens > 0
    /\ Len(last.tokens_to_append) < Len(tokens)

\* The encodings that keep the adapter contract's "decode is the inverse of
\* encoding": every character of a text is covered by a piece.
LosslessEncodings ==
    {e \in Encodings :
        \A t \in Texts(MaxPrefix + MaxSuffix) : Decode(EncodeOrdinary(e, t)) = t}

\* C2: over an encoder that satisfies the adapter contract,
\* FixedPrefixTokenCache(P).encode_ordinary(S) equals
\* encoder.encode_ordinary(P ++ S), for every P and S, empty ones included.
C2_FixedPrefixMatchesColdEncode ==
    (fp_phase = "ready" /\ fp_last.op = "encode_ordinary" /\ enc \in LosslessEncodings)
        => fp_last.result = EncodeOrdinary(enc, fp_prefix \o fp_last.suffix)

\* A call whose result joins a non-empty stable token prefix, an unstable
\* tail of the prefix and a non-empty suffix.
C2_Witness ==
    /\ fp_phase = "ready"
    /\ enc \in LosslessEncodings
    /\ fp_last.op = "encode_ordinary"
    /\ fp_last.suffix # <<>>
    /\ fp_split.stable_tokens # <<>>
    /\ fp_split.unstable_text # <<>>

\* C3: a consumer that drops rollback_tokens entries and extends with
\* tokens_to_append at each append holds a stream equal to cache.tokens,
\* whether or not the backtrack assumption holds.
C3_ConsumerStreamEqualsTokens ==
    phase = "ready" => stream = tokens

\* An append under an insufficient backtrack, applied by the consumer.
C3_Witness ==
    /\ NonEmptyAppend
    /\ ~suff
    /\ last.rollback_tokens > 0
    /\ tokens # EncodeOrdinary(enc, text)

\* C4: after construction and after every reset or append_ordinary call,
\* tokens is the concatenation, in order, of the lists in piece_tokens (P1).
C4_TokensAreConcatOfPieceTokens ==
    phase = "ready" => tokens = Flatten(piece_tokens)

\* An append that replaced the tail of a cache holding several pieces.
C4_Witness ==
    /\ NonEmptyAppend
    /\ Len(pieces) >= 2
    /\ last.rollback_tokens > 0
    /\ Len(tokens) > Len(pieces)

PieceTokensMatchPieces ==
    /\ Len(piece_tokens) = Len(pieces)
    /\ \A i \in 1..Len(pieces) :
           piece_tokens[i] = EncodeSinglePiece(Slice(text, pieces[i][1], pieces[i][2]))

\* C5 as stated: after every public call, pieces is the sequence of matches
\* of the pattern over the whole current text, and piece_tokens[i] is
\* encode_single_piece of the text of pieces[i].
C5_Original ==
    phase = "ready" => (pieces = Finditer(enc, text) /\ PieceTokensMatchPieces)

\* C5, amended: pieces is the sequence of matches of the pattern over the
\* whole current text after construction, after reset, and after appends
\* that were all backtrack-sufficient; piece_tokens[i] is encode_single_piece
\* of the text of pieces[i] after every public call.
C5_PiecesAreColdSegmentation ==
    /\ (phase = "ready" /\ suff) => pieces = Finditer(enc, text)
    /\ phase = "ready" => PieceTokensMatchPieces

\* An append that re-segmented the tail of a populated cache.
C5_Witness ==
    /\ NonEmptyAppend
    /\ suff
    /\ last.rollback_tokens > 0
    /\ last.enc_calls >= 2
    /\ Len(pieces) > last.enc_calls

\* C6: after construction with text T or reset(T), from any prior state and
\* for any backtrack_pieces, text is T and tokens is encoder.encode_ordinary(T).
C6_ColdPathMatchesEncodeOrdinary ==
    (phase = "ready" /\ last.op \in {"construct", "reset"})
        => (text = last.arg /\ tokens = EncodeOrdinary(enc, last.arg))

\* A reset to a text of several pieces.
C6_Witness ==
    /\ phase = "ready"
    /\ last.op = "reset"
    /\ last.arg # <<>>
    /\ Len(pieces) >= 2

\* C7: when backtrack is sufficient, the incrementally built cache equals in
\* text, pieces, piece_tokens and tokens the cache reset(T) builds for its
\* final text T.
C7_IncrementalEqualsFreshReset ==
    (phase = "ready" /\ suff)
        => Fields = reset(enc, Fields, text)

\* An append on a cache holding more pieces than backtrack_pieces, which
\* kept the leading pieces and re-matched the tail at a non-zero offset.
C7_Witness ==
    /\ NonEmptyAppend
    /\ suff
    /\ last.enc_calls >= 1
    /\ Len(pieces) > last.enc_calls
    /\ pieces[Len(pieces) - last.enc_calls + 1][1] > 0

\* C8: append_ordinary("") returns TokenDelta(0, []) and leaves text, pieces,
\* piece_tokens, tokens and backtrack_pieces unchanged, without calling the
\* encoder.
C8_EmptyAppendIsNoOp ==
    [][(last'.op = "append" /\ last'.arg = <<>>)
         => /\ UNCHANGED <<text, pieces, piece_tokens, tokens, backtrack_pieces>>
            /\ last'.rollback_tokens = 0
            /\ last'.tokens_to_append = <<>>
            /\ last'.enc_calls = 0]_vars

\* append_ordinary("") was called on a populated cache.
C8_Witness ==
    /\ phase = "ready"
    /\ last.op = "append"
    /\ last.arg = <<>>
    /\ Len(pieces) >= 2

\* C9: construction with backtrack_pieces < 1 raises ValueError for every
\* initial text, before the pattern is compiled or the encoder is called,
\* and leaves no cache; with backtrack_pieces >= 1 it does not raise it.
C9_InvalidBacktrackRejected ==
    /\ last.op = "construct"
         => /\ (last.k < 1) <=> (phase = "failed")
            /\ (last.k < 1) <=> (last.raised = "ValueError")
            /\ (last.k >= 1) <=> (phase = "ready")
    /\ phase = "failed"
         => /\ ~compiled
            /\ last.enc_calls = 0
            /\ text = <<>> /\ pieces = <<>> /\ piece_tokens = <<>> /\ tokens = <<>>
    /\ phase = "ready" => (compiled /\ backtrack_pieces >= 1)

\* A rejected constructor call with a non-empty initial text.
C9_Witness ==
    /\ phase = "failed"
    /\ last.op = "construct"
    /\ last.k < 1
    /\ last.arg # <<>>

\* C10: whenever stable_split_for_text returns, stable_tokens is the first
\* component of encode_with_unstable(text), stable_text is its decoding and a
\* character prefix of text, and stable_text ++ unstable_text is text; so
\* decode(stable_tokens) ++ unstable_text is the prefix of a constructed
\* FixedPrefixTokenCache.
C10_StableSplitPartitionsText ==
    fp_phase = "ready"
        => /\ fp_split.stable_tokens = EncodeWithUnstable(enc, fp_prefix)
           /\ fp_split.stable_text = Decode(fp_split.stable_tokens)
           /\ StartsWith(fp_prefix, fp_split.stable_text)
           /\ fp_split.stable_text \o fp_split.unstable_text = fp_prefix
           /\ Decode(fp_split.stable_tokens) \o fp_split.unstable_text = fp_prefix

\* A split with a non-empty stable part and a non-empty unstable part.
C10_Witness ==
    /\ fp_phase = "ready"
    /\ fp_split.stable_tokens # <<>>
    /\ fp_split.unstable_text # <<>>

\* The characters of s open t, compared position by position.
IsCharPrefix(s, t) ==
    /\ Len(s) <= Len(t)
    /\ \A i \in 1..Len(s) : s[i] = t[i]

\* C11: stable_split_for_text raises the stable-split-mismatch ValueError
\* exactly when decode(stable_tokens) is not a character prefix of the text;
\* FixedPrefixTokenCache construction fails in exactly those cases; a
\* constructed cache's encode_ordinary and encode_ordinary_tail never raise it.
C11_MismatchOnlyAtConstruction ==
    /\ fp_last.op = "construct"
         => LET mismatch ==
                    ~IsCharPrefix(Decode(EncodeWithUnstable(enc, fp_last.suffix)),
                                  fp_last.suffix)
            IN  /\ mismatch <=> (fp_last.raised = "ValueError")
                /\ mismatch <=> (fp_phase = "failed")
                /\ ~mismatch <=> (fp_phase = "ready")
    /\ fp_last.op \in {"encode_ordinary", "encode_ordinary_tail"}
         => (fp_phase = "ready" /\ fp_last.raised = "none")
    /\ fp_phase = "failed" => fp_last.op = "construct"

\* A construction that failed: the decoded stable tokens are as long as a
\* prefix of the text but differ from it.
C11_Witness ==
    /\ fp_phase = "failed"
    /\ fp_last.raised = "ValueError"
    /\ Decode(EncodeWithUnstable(enc, fp_last.suffix)) # <<>>
    /\ Len(Decode(EncodeWithUnstable(enc, fp_last.suffix))) < Len(fp_last.suffix)

\* C12: append_ordinary(d) with a non-empty d on a cache whose pieces list is
\* empty returns rollback_tokens = 0 and tokens_to_append equal to
\* encoder.encode_ordinary(text ++ d), and cache.tokens is that list afterwards.
C12_ColdStartAppend ==
    [][(phase = "ready" /\ pieces = <<>> /\ last'.op = "append" /\ last'.arg # <<>>)
         => /\ last'.rollback_tokens = 0
            /\ last'.tokens_to_append = EncodeOrdinary(enc, text \o last'.arg)
            /\ tokens' = EncodeOrdinary(enc, text \o last'.arg)
            /\ text' = text \o last'.arg]_vars

\* The first append to a cache built from the empty text, producing several
\* pieces.
C12_Witness ==
    /\ NonEmptyAppend
    /\ text = last.arg
    /\ last.rollback_tokens = 0
    /\ last.tokens_to_append = tokens
    /\ Len(pieces) >= 2

\* The number of tokens held by the last b pieces of the piece token lists pts.
RECURSIVE TokensOfLastPieces(_, _)
TokensOfLastPieces(pts, b) ==
    IF b = 0 THEN 0
    ELSE Len(pts[Len(pts)]) + TokensOfLastPieces(SubSeq(pts, 1, Len(pts) - 1), b - 1)

\* C13: an append_ordinary call with a non-empty delta on a cache with at
\* least one piece returns as rollback_tokens the number of tokens of the
\* last b = min(backtrack_pieces, len(pieces)) pieces held before the call,
\* which lies between 0 and the number of tokens held before the call.
C13_RollbackIsOldTailTokenCount ==
    [][(phase = "ready" /\ Len(pieces) >= 1 /\ last'.op = "append" /\ last'.arg # <<>>)
         => LET b == IF backtrack_pieces <= Len(pieces) THEN backtrack_pieces
                     ELSE Len(pieces)
            IN  /\ last'.rollback_tokens = TokensOfLastPieces(piece_tokens, b)
                /\ 0 <= last'.rollback_tokens
                /\ last'.rollback_tokens <= Len(tokens)]_vars

\* An append with backtrack_pieces = 2 on a cache of three or more pieces
\* that rolled back some tokens and kept others.
C13_Witness ==
    /\ NonEmptyAppend
    /\ backtrack_pieces = 2
    /\ last.rollback_tokens >= 2
    /\ last.enc_calls >= 1
    /\ Len(pieces) > last.enc_calls
    /\ Len(tokens) > Len(last.tokens_to_append)

\* The states of the cache's state machine, as the claim defines them.
IsEmpty(t, ps) == t = <<>> /\ ps = <<>>
IsPopulated(t, ps) == t # <<>> /\ ps # <<>>

\* C14 as stated: after construction and after every public call the cache
\* is empty (text = "" and pieces = []) or populated (text and pieces both
\* non-empty).
C14_Original ==
    phase = "ready" => (IsEmpty(text, pieces) \/ IsPopulated(text, pieces))

\* The encodings whose pattern leaves no character of a text outside a piece.
GaplessEncodings ==
    {e \in Encodings :
        \A t \in Texts(MaxLen) :
            LET ms == Finditer(e, t)
            IN  \A i \in 1..Len(t) : \E j \in 1..Len(ms) : ms[j][1] < i /\ i <= ms[j][2]}

\* C14, amended: after construction and after every public call the cache is
\* empty (text = "" and pieces = []) or populated (text non-empty, and pieces
\* non-empty when the pattern leaves no character unmatched); reset("") gives
\* empty, reset(non-empty) gives populated, append_ordinary(non-empty) gives
\* populated from either state, and append_ordinary("") keeps the state.
C14_StateMachine ==
    [][phase' = "ready"
         => /\ text' = <<>> => pieces' = <<>>
            /\ (text' # <<>> /\ enc \in GaplessEncodings) => pieces' # <<>>
            /\ last'.op \in {"construct", "reset"}
                 => (text' = <<>>) <=> (last'.arg = <<>>)
            /\ (last'.op = "append" /\ last'.arg # <<>>) => text' # <<>>
            /\ (last'.op = "append" /\ last'.arg = <<>>)
                 => (text' = text /\ pieces' = pieces)]_vars

\* reset("") left the cache in the empty state.
C14_Witness ==
    /\ phase = "ready"
    /\ last.op = "reset"
    /\ last.arg = <<>>
    /\ IsEmpty(text, pieces)

\* C15: a whole operation on one cache leaves every other cache of the
\* process unchanged: a reset or append_ordinary on one append-only cache
\* changes no field of another append-only cache nor the fixed-prefix cache,
\* and a call on the fixed-prefix cache changes no append-only cache, in any
\* interleaving of whole operations over the shared encoder.
C15_CachesAreIndependent ==
    [][/\ \A i, j \in CacheIds :
              (i # j /\ caches'[i] # caches[i]) => caches'[j] = caches[j]
       /\ caches' # caches => UNCHANGED <<fp_phase, fp_prefix, fp_split, fp_last>>
       /\ fp_last' # fp_last => UNCHANGED caches
       /\ UNCHANGED enc]_vars

\* Two append-only caches holding different texts next to a constructed
\* fixed-prefix cache that has served a call.
C15_Witness ==
    /\ \A i \in CacheIds : caches[i].phase = "ready"
    /\ caches[1].text # caches[2].text
    /\ caches[1].tokens # <<>>
    /\ caches[2].tokens # <<>>
    /\ fp_phase = "ready"
    /\ fp_last.op = "encode_ordinary"

\* C16: when encode_single_piece fails partway through the tail processing
\* of append_ordinary, the call commits nothing: text is not extended by
\* delta, and pieces, piece_tokens and tokens are as before the call.
C16_FailedAppendCommitsNothing ==
    [][(pieces # <<>> /\ last'.op = "append" /\ last'.raised = "EncoderError")
         => UNCHANGED <<text, pieces, piece_tokens, tokens>>]_vars

\* C17: constructing either cache with a missing encoder fails at
\* construction with the error kind of backtrack_pieces < 1 (ValueError).
C17_MissingEncoderIsInvalidArgument ==
    enc = NoEncoder
        => /\ last.op = "construct"
                => (phase = "failed" /\ last.raised = "ValueError")
           /\ fp_last.op = "construct"
                => (fp_phase = "failed" /\ fp_last.raised = "ValueError")

\* The first n entries of xs and of ys are the same.
SamePrefix(xs, ys, n) ==
    /\ Len(xs) >= n
    /\ Len(ys) >= n
    /\ \A i \in 1..n : xs[i] = ys[i]

\* C19: an append_ordinary call on a cache with n >= 1 pieces leaves the
\* first n - b entries of pieces and of piece_tokens, b = min(backtrack_pieces,
\* n), and the first len(tokens) - rollback_tokens entries of tokens as they
\* were; only what follows them is replaced.
C19_AppendKeepsLeadingPieces ==
    [][(phase = "ready" /\ Len(pieces) >= 1 /\ last'.op = "append")
         => LET n == Len(pieces)
                b == IF backtrack_pieces <= n THEN backtrack_pieces ELSE n
            IN  /\ SamePrefix(pieces', pieces, n - b)
                /\ SamePrefix(piece_tokens', piece_tokens, n - b)
                /\ SamePrefix(tokens', tokens, Len(tokens) - last'.rollback_tokens)]_vars

\* An append with backtrack_pieces = 1 that replaced the last of at least
\* three pieces and kept the tokens of the others.
C19_Witness ==
    /\ NonEmptyAppend
    /\ backtrack_pieces = 1
    /\ Len(pieces) >= 3
    /\ last.rollback_tokens >= 1
    /\ Len(tokens) >= Len(last.tokens_to_append) + 2
    /\ pieces[Len(pieces)][2] = Len(text)

\* C20: every completed append_ordinary(delta) sets text to the text before
\* the call followed by delta, in the empty-pieces branch and in the
\* populated branch alike; so text is the initial text followed by all the
\* deltas, and its length never decreases under append.
C20_AppendExtendsText ==
    [][(phase = "ready" /\ last'.op = "append")
         => /\ text' = text \o last'.arg
            /\ Len(text') = Len(text) + Len(last'.arg)
            /\ Len(text') >= Len(text)]_vars

\* A two-character delta appended to a text of two or more characters.
C20_Witness ==
    /\ NonEmptyAppend
    /\ Len(last.arg) = 2
    /\ Len(text) >= 4
    /\ SubSeq(text, Len(text) - 1, Len(text)) = last.arg

\* The ranges ms, shifted right by offset.
Shifted(ms, offset) == [i \in 1..Len(ms) |-> <<offset + ms[i][1], offset + ms[i][2]>>]

\* C21: in the populated branch of append_ordinary the pattern and
\* encode_single_piece are applied only to tail_text, the text after the call
\* from reprocess_start on, where reprocess_start is the start of the b-th
\* piece from the end, b = min(backtrack_pieces, len(pieces)): the encoder is
\* called once per match of tail_text, the pieces before reprocess_start are
\* not touched, and the new pieces are the matches shifted by reprocess_start.
C21_OnlyTailIsReprocessed ==
    [][(phase = "ready" /\ Len(pieces) >= 1 /\ last'.op = "append" /\ last'.arg # <<>>)
         => \A kept \in {StartPieceIndex(backtrack_pieces, Len(pieces))} :
            \A reprocess_start \in {pieces[kept + 1][1]} :
            \A ms \in {Finditer(enc, SubSeq(text', reprocess_start + 1, Len(text')))} :
                /\ last'.enc_calls = Len(ms)
                /\ Len(pieces') = kept + Len(ms)
                /\ SubSeq(pieces', kept + 1, Len(pieces')) = Shifted(ms, reprocess_start)
                /\ \A i \in 1..Len(ms) : pieces'[kept + i][1] >= reprocess_start
                /\ last'.tokens_to_append
                     = Flatten(SubSeq(piece_tokens', kept + 1, Len(pieces')))]_vars

\* An append that re-matched a tail starting at a non-zero offset into
\* several pieces and left two or more pieces in front of it.
C21_Witness ==
    /\ NonEmptyAppend
    /\ last.enc_calls >= 2
    /\ Len(pieces) >= last.enc_calls + 2
    /\ last.rollback_tokens >= 1

\* C22: when the pattern yields no match on tail_text in an append_ordinary
\* call on a cache with n >= 1 pieces, the call returns tokens_to_append = []
\* and rollback_tokens equal to the token count of the last b pieces, pieces
\* and piece_tokens lose exactly their last b = min(backtrack_pieces, n)
\* entries, tokens loses its last rollback_tokens entries, and text still
\* gains delta.
C22_NoMatchTailShrinksPieces ==
    [][(phase = "ready" /\ Len(pieces) >= 1 /\ last'.op = "append" /\ last'.arg # <<>>)
         => \A kept \in {StartPieceIndex(backtrack_pieces, Len(pieces))} :
                Finditer(enc, SubSeq(text \o last'.arg, pieces[kept + 1][1] + 1,
                                     Len(text) + Len(last'.arg))) = <<>>
                  => /\ last'.tokens_to_append = <<>>
                     /\ last'.rollback_tokens
                          = TokensOfLastPieces(piece_tokens, Len(pieces) - kept)
                     /\ pieces' = SubSeq(pieces, 1, kept)
                     /\ piece_tokens' = SubSeq(piece_tokens, 1, kept)
                     /\ tokens' = SubSeq(tokens, 1, Len(tokens) - last'.rollback_tokens)
                     /\ text' = text \o last'.arg]_vars

\* An append whose tail had no match: it returned no tokens, rolled some
\* back, and left text longer than the last piece reaches.
C22_Witness ==
    /\ NonEmptyAppend
    /\ last.enc_calls = 0
    /\ last.tokens_to_append = <<>>
    /\ last.rollback_tokens >= 1
    /\ Len(pieces) >= 1
    /\ pieces[Len(pieces)][2] < Len(text)

\* C24: every encode_ordinary(S) of a FixedPrefixTokenCache starts with the
\* same stable_prefix_token_count tokens, the stable tokens, whatever S is;
\* what follows them is encoder.encode_ordinary(unstable_text ++ S), which is
\* also what encode_ordinary_tail(S) returns.
C24_ResultIsStableTokensThenTail ==
    fp_phase = "ready"
        => \A n \in {stable_prefix_token_count(fp_split)} :
               /\ fp_last.op = "encode_ordinary"
                    => /\ Len(fp_last.result) >= n
                       /\ SubSeq(fp_last.result, 1, n) = fp_split.stable_tokens
                       /\ SubSeq(fp_last.result, n + 1, Len(fp_last.result))
                            = EncodeOrdinary(enc, fp_split.unstable_text \o fp_last.suffix)
               /\ fp_last.op = "encode_ordinary_tail"
                    => fp_last.result
                         = EncodeOrdinary(enc, fp_split.unstable_text \o fp_last.suffix)

\* An encode_ordinary result that holds tail tokens after two or more stable
\* tokens.
C24_Witness ==
    /\ fp_phase = "ready"
    /\ fp_last.op = "encode_ordinary"
    /\ stable_prefix_token_count(fp_split) >= 2
    /\ Len(fp_last.result) > stable_prefix_token_count(fp_split)
    /\ fp_last.suffix # <<>>

\* C26: after every completed constructor, reset and append_ordinary call,
\* whatever backtrack_pieces is, every piece satisfies
\* 0 <= start <= end <= len(text) and each piece ends no later than the next
\* one starts.
C26_PieceRangesWellFormed ==
    phase = "ready"
        => /\ \A i \in 1..Len(pieces) :
                  /\ 0 <= pieces[i][1]
                  /\ pieces[i][1] <= pieces[i][2]
                  /\ pieces[i][2] <= Len(text)
           /\ \A i \in 1..(Len(pieces) - 1) : pieces[i][2] <= pieces[i + 1][1]

\* Appends under an insufficient backtrack left pieces that are not the cold
\* segmentation; the last of three or more pieces was re-matched.
C26_Witness ==
    /\ NonEmptyAppend
    /\ ~suff
    /\ Len(pieces) >= 3
    /\ pieces # Finditer(enc, text)

\* C27: a non-empty append_ordinary on a cache with 1 <= len(pieces) <=
\* backtrack_pieces rolls the whole token stream back: rollback_tokens is the
\* number of tokens held before the call, tokens_to_append is the complete
\* cache.tokens after the call, and all pieces are matched again from the
\* start of the first piece.
C27_FullRollbackWhenFewPieces ==
    [][(phase = "ready" /\ Len(pieces) >= 1 /\ backtrack_pieces >= Len(pieces)
          /\ last'.op = "append" /\ last'.arg # <<>>)
         => \A first \in {pieces[1][1]} :
                /\ last'.rollback_tokens = Len(tokens)
                /\ last'.tokens_to_append = tokens'
                /\ last'.enc_calls = Len(pieces')
                /\ pieces' = Shifted(Finditer(enc, SubSeq(text', first + 1, Len(text'))),
                                     first)]_vars

\* An append with backtrack_pieces = 2 on a cache of two pieces and three
\* or more tokens: every token came back in tokens_to_append.
C27_Witness ==
    /\ NonEmptyAppend
    /\ backtrack_pieces = 2
    /\ last.rollback_tokens >= 3
    /\ last.tokens_to_append = tokens
    /\ last.enc_calls = Len(pieces)
    /\ Len(pieces) >= 2

\* C29: reset(T) does not depend on the calls made before it and is
\* idempotent: after any appends and resets, reset(T) leaves the text,
\* pieces, piece_tokens and tokens of a cache freshly constructed with
\* initial text T, a reset(T) that follows a reset(T) changes nothing, and
\* reset leaves backtrack_pieces as it was.
C29_ResetIsHistoryIndependent ==
    [][(phase = "ready" /\ last'.op = "reset")
         => /\ backtrack_pieces' = backtrack_pieces
            /\ phase' = "ready"
            /\ Fields' = reset(enc, FreshFields, last'.arg)
            /\ (last.op = "reset" /\ last.arg = last'.arg) => Fields' = Fields]_vars

\* reset(T), with T of MaxReset characters and several pieces, on a cache
\* built with backtrack_pieces = 1.
C29_Witness ==
    /\ phase = "ready"
    /\ last.op = "reset"
    /\ Len(pieces) >= 2
    /\ Len(text) = MaxReset
    /\ backtrack_pieces = 1

\* C28: in every reachable state, the states left behind by an encoder error
\* inside reset or append_ordinary included, pieces and piece_tokens have the
\* same length
\* (P4); an encoder error in the populated branch of append_ordinary leaves
\* pieces and piece_tokens as they were before the call.
C28_PieceListsStayParallel ==
    [][/\ Len(pieces) = Len(piece_tokens)
       /\ Len(pieces') = Len(piece_tokens')
       /\ (pieces # <<>> /\ last'.op = "append" /\ last'.raised = "EncoderError")
            => UNCHANGED <<pieces, piece_tokens>>]_vars

\* A reset stopped by an encoder error after it had recorded a piece.
C28_Witness ==
    /\ phase = "poisoned"
    /\ last.op = "reset"
    /\ last.raised = "EncoderError"
    /\ last.enc_calls = 2
    /\ Len(pieces) = 1
    /\ Len(piece_tokens) = 1

\* C30: append_ordinary is not atomic for a reader on another thread. While
\* the populated branch is between its rollback and the replacement of the
\* piece lists, the text already ends with delta, the tokens are cut by the
\* rollback, which is not zero, and pieces and piece_tokens still hold the old
\* tail, so the tokens differ from the concatenation of piece_tokens, and a
\* reader that looks then sees them differ. Between calls the two agree.
C30_AppendIsNotAtomic ==
    /\ frame.pc = "loop" =>
          /\ frame.rollback > 0
          /\ frame.delta # <<>>
          /\ SubSeq(text, Len(text) - Len(frame.delta) + 1, Len(text)) = frame.delta
          /\ Len(pieces) = frame.prev_piece_count
          /\ Len(piece_tokens) = frame.prev_piece_count
          /\ pieces[Len(pieces)][2] <= Len(text) - Len(frame.delta)
          /\ Len(Flatten(piece_tokens)) = frame.prev_token_count
          /\ tokens = SubSeq(Flatten(piece_tokens), 1,
                             frame.prev_token_count - frame.rollback)
          /\ tokens # Flatten(piece_tokens)
    /\ observed.during = "loop" =>
          /\ ~observed.tokens_match
          /\ observed.text_ahead
    /\ (frame.pc = "idle" /\ phase = "ready") => tokens = Flatten(piece_tokens)
    /\ observed.during = "idle" => observed.tokens_match

\* The reader looked in the middle of the loop of a populated append that
\* reprocesses two pieces, and saw tokens that are not the concatenation of
\* piece_tokens, next to a text that already holds the delta.
C30_Witness ==
    /\ frame.pc = "loop"
    /\ frame.prev_piece_count - frame.start_piece_index = 2
    /\ Len(frame.new_pieces) = 1
    /\ observed.during = "loop"
    /\ ~observed.tokens_match
    /\ observed.text_ahead

\* C25: the tokens_to_append list of a TokenDelta is independent of the
\* cache. A list the caller kept still has the value it was returned with,
\* whatever reset and append calls came after, and it is not the object that
\* is the cache's tokens list and not one of the objects inside piece_tokens;
\* this holds for the list of the empty-pieces branch and for the list of
\* the populated branch alike.
C25_TokensToAppendIsIndependent ==
    \A i \in 1..Len(heap.held) :
        /\ heap.held[i].id \in DOMAIN heap.obj
        /\ heap.obj[heap.held[i].id] = heap.held[i].was
        /\ heap.held[i].id # heap.tokens
        /\ \A j \in 1..Len(heap.piece_tokens) : heap.held[i].id # heap.piece_tokens[j]

\* The caller still holds the list of an empty-pieces append after a
\* populated append changed the tokens of the cache, which now has two
\* pieces.
C25_Witness ==
    /\ heap.phase = "ready"
    /\ Len(heap.held) = 1
    /\ heap.held[1].branch = "empty-pieces"
    /\ heap.held[1].was # <<>>
    /\ Len(heap.obj[heap.tokens]) > Len(heap.held[1].was)
    /\ Len(heap.piece_tokens) = 2

\* C23: a FixedPrefixTokenCache is immutable after construction. A call of
\* encode_ordinary or encode_ordinary_tail leaves prefix, the stable_tokens
\* list (the object and its value) and unstable_text as they were; the list
\* encode_ordinary returns is a new object, neither the stable_tokens list
\* nor a list returned before, and holds the stable tokens followed by the
\* encoded tail; and the lists kept from two encode_ordinary calls with the
\* same suffix are equal.
C23_FixedPrefixIsImmutable ==
    [][heap.phase = "ready" =>
         /\ heap'.phase = "ready"
         /\ heap'.prefix = heap.prefix
         /\ heap'.stable_tokens = heap.stable_tokens
         /\ heap'.obj[heap.stable_tokens] = heap.obj[heap.stable_tokens]
         /\ heap'.stable_text = heap.stable_text
         /\ heap'.unstable_text = heap.unstable_text
         /\ \A i \in 1..Len(heap'.held) : \A r \in {heap'.held[i]} :
                /\ r.id \in DOMAIN heap'.obj
                /\ r.id # heap'.stable_tokens
                /\ \A j \in 1..Len(heap'.held) : j # i => heap'.held[j].id # r.id
                /\ heap'.obj[r.id] = r.was
         /\ heap'.held # heap.held =>
                \A r \in {heap'.held[Len(heap'.held)]} :
                    r.was = heap.obj[heap.stable_tokens]
                              \o EncodeOrdinary(enc, heap.unstable_text \o r.suffix)
         /\ \A i, j \in 1..Len(heap'.held) :
                heap'.held[i].suffix = heap'.held[j].suffix
                  => heap'.obj[heap'.held[i].id] = heap'.obj[heap'.held[j].id]]_vars

\* Two encode_ordinary calls with the same non-empty suffix on a cache with
\* stable tokens returned two list objects with equal values.
C23_Witness ==
    /\ heap.phase = "ready"
    /\ heap.obj[heap.stable_tokens] # <<>>
    /\ Len(heap.held) = 2
    /\ heap.held[1].suffix # <<>>
    /\ heap.held[1].suffix = heap.held[2].suffix
    /\ heap.held[1].id # heap.held[2].id
    /\ heap.obj[heap.held[1].id] = heap.obj[heap.held[2].id]

====
